---- MODULE Spec2Model ----
(***************************************************************************)
(* A model of ochat/models/unpadded_llama.py: the padded adapter           *)
(* (LlamaForCausalLM.forward), the packed decoder stack                    *)
(* (UnpaddedLlamaModel / UnpaddedLlamaForCausalLM) and the weighted loss.  *)
(*                                                                         *)
(* Tensors are functions over 0 .. n-1 (the code's 0-based indices).       *)
(* Floating point vectors are terms over uninterpreted (injective)         *)
(* functions: a linear layer, a norm, a rotation or an attention call is    *)
(* the tuple of its name and its arguments, so two hidden states are equal *)
(* exactly when they were computed from equal inputs.  The per-token loss  *)
(* and the loss weights are small integers, the loss a rational <<n, d>>.  *)
(***************************************************************************)
EXTENDS Integers, Sequences, FiniteSets, TLC

\* ------------------------------------------------------------------ bounds
\* Largest batch_size and seq_len of a padded call.
MaxBatch == 3
MaxSeqLen == 4
\* Largest batch_size * seq_len of a padded call without position_ids.
MaxCells == 6
\* Largest batch_size * seq_len of a padded call with caller position_ids.
MaxPosCells == 2
\* Largest nnz of a packed call.
MaxPacked == 2
\* config.num_hidden_layers
NumLayers == 2
\* config.max_position_embeddings
MaxPositionEmbeddings == 2
\* extend_context_to
ExtendContextTo == 3
\* Largest per-token cross entropy (an integer stand-in for a finite float).
MaxLoss == 1
\* config.vocab_size is Cardinality(Vocab)
Vocab == {0, 1}
\* Loss weights: negative ones let non-zero weights cancel.
WeightVals == {-1, 0, 1}

\* --------------------------------------------------------------- optional
None == {}
Some(x) == {x}
The(o) == CHOOSE x \in o : TRUE

\* ----------------------------------------------------------- tensor basics
Max2(a, b) == IF a >= b THEN a ELSE b

Len0(t) == Cardinality(DOMAIN t)

\* The empty tensor.
Empty == [i \in {} |-> 0]

\* A tensor with every entry computed (a function is otherwise computed
\* entry by entry, each time it is read).
Materialize(t) == t @@ Empty

\* [batch, seq] tensors with entries in V.
Tensor(b, s, V) == [0 .. b - 1 -> [0 .. s - 1 -> V]]

BatchSize(t) == Len0(t)
SeqLenOf(t) == Len0(t[0])

\* t.flatten()
Flatten(t) ==
    LET s == SeqLenOf(t)
    IN  Materialize([f \in 0 .. BatchSize(t) * s - 1 |-> t[f \div s][f % s]])

\* Sum of v[0 .. n-1].
RECURSIVE SumTo(_, _)
SumTo(v, n) == IF n = 0 THEN 0 ELSE SumTo(v, n - 1) + v[n - 1]

\* torch.cumsum over a vector.
CumSum(v) == Materialize([i \in DOMAIN v |-> SumTo(v, i + 1)])

\* Largest entry of a non-empty vector (torch.max().item()).
RECURSIVE MaxTo(_, _)
MaxTo(v, n) == IF n = 1 THEN v[0] ELSE Max2(MaxTo(v, n - 1), v[n - 1])

\* ------------------------------------------------------------ rotary table
\* UnpaddedLlamaRotaryEmbedding.__init__: the number of rows of cos/sin.
max_seq_len_cached == Max2(MaxPositionEmbeddings, ExtendContextTo)

\* self.extend_factor: RoPE is not interpolated.
extend_factor == 1

\* Row p of cos_cached / sin_cached is a function of the angle t[p].
RotaryEmbedding_init ==
    [p \in 0 .. max_seq_len_cached - 1 |-> <<"cos_sin", p * extend_factor>>]

\* cos[position_ids]: tensor indexing, a negative index counts from the end.
IndexInRange(table, idx) == idx >= -Len0(table) /\ idx < Len0(table)

IndexRow(table, idx) == IF idx < 0 THEN table[idx + Len0(table)] ELSE table[idx]

\* ---------------------------------------------------------- padded adapter
\* Mutant of CumSumMinusOne: the "- 1" is forgotten (1-based positions).
CumSumMinusOne_onebased(attention_mask) ==
    Materialize([r \in DOMAIN attention_mask |->
        LET cs == CumSum(attention_mask[r])
        IN  Materialize([c \in DOMAIN attention_mask[r] |-> cs[c]])])

\* attention_mask.long().cumsum(-1) - 1
CumSumMinusOne(attention_mask) ==
    Materialize([r \in DOMAIN attention_mask |->
        LET cs == CumSum(attention_mask[r])
        IN  Materialize([c \in DOMAIN attention_mask[r] |-> cs[c] - 1])])

\* t.masked_fill_(attention_mask == 0, 0)
MaskedFill(t, attention_mask) ==
    Materialize([r \in DOMAIN t |->
        Materialize([c \in DOMAIN t[r] |-> IF attention_mask[r][c] = 0 THEN 0 ELSE t[r][c]])])

\* Mutant of DerivePositionIds: the cumsum is taken in place (cumsum_), so
\* the position tensor is the caller's mask and masked_fill_ writes it.
DerivePositionIds_inplace(attention_mask) ==
    [position_ids   |-> MaskedFill(CumSumMinusOne(attention_mask), attention_mask),
     attention_mask |-> MaskedFill(CumSumMinusOne(attention_mask), attention_mask)]

\* Lines 419-420.  The cumsum allocates a new tensor, which the in-place
\* masked_fill_ then writes: the result holds the derived positions and the
\* caller's mask as the write leaves it.
DerivePositionIds(attention_mask) ==
    [position_ids   |-> MaskedFill(CumSumMinusOne(attention_mask), attention_mask),
     attention_mask |-> attention_mask]

\* Mutant of SeqlensInBatch: the sum runs over dim 0 (down the columns).
SeqlensInBatch_dim0(attention_mask) ==
    Materialize([r \in DOMAIN attention_mask |->
        IF r < Len0(attention_mask[0])
        THEN SumTo([q \in DOMAIN attention_mask |-> attention_mask[q][r]], Len0(attention_mask))
        ELSE 0])

\* attention_mask.sum(dim=-1)
SeqlensInBatch(attention_mask) ==
    Materialize([r \in DOMAIN attention_mask |->
        SumTo(attention_mask[r], Len0(attention_mask[r]))])

\* torch.nonzero(v).flatten(): the indices of the non-zero entries, ascending.
RECURSIVE NonzeroTo(_, _)
NonzeroTo(v, n) ==
    IF n = 0 THEN Empty
    ELSE LET rest == NonzeroTo(v, n - 1)
             m    == Len0(rest)
         IN  IF v[n - 1] # 0
             THEN Materialize([k \in 0 .. m |-> IF k < m THEN rest[k] ELSE n - 1])
             ELSE rest

Nonzero(v) == NonzeroTo(v, Len0(v))

\* Mutant of CuSeqlens: the leading 0 is not padded on.
CuSeqlens_nopad(seqlens) == CumSum(seqlens)

\* Mutant of CuSeqlens: every length is clamped to at least 1.
CuSeqlens_clamped(seqlens) ==
    [i \in 0 .. Len0(seqlens) |->
        IF i = 0 THEN 0 ELSE CumSum([q \in DOMAIN seqlens |-> Max2(seqlens[q], 1)])[i - 1]]

\* torch.nn.functional.pad(torch.cumsum(seqlens, dim=0), (1, 0))
CuSeqlens(seqlens) ==
    LET cs == CumSum(seqlens)
    IN  Materialize([i \in 0 .. Len0(seqlens) |-> IF i = 0 THEN 0 ELSE cs[i - 1]])

\* torch.take_along_dim(t, indices) without dim: gathers from t.flatten().
TakeAlongDim(t, indices) ==
    LET flat == Flatten(t)
    IN  Materialize([k \in DOMAIN indices |-> flat[indices[k]]])

\* Mutant of Unpad: the positions are always derived from the mask.
Unpad_rederive(input_ids, attention_mask, position_ids) ==
    LET derived == DerivePositionIds(attention_mask)
        pos     == derived.position_ids
        mask    == derived.attention_mask
        seqlens_in_batch == SeqlensInBatch(mask)
        indices == Nonzero(Flatten(mask))
    IN  [attention_mask  |-> mask,
         position_ids    |-> pos,
         indices         |-> indices,
         max_seqlen      |-> MaxTo(seqlens_in_batch, Len0(seqlens_in_batch)),
         cu_seqlens      |-> CuSeqlens(seqlens_in_batch),
         nz_input_ids    |-> TakeAlongDim(input_ids, indices),
         nz_position_ids |-> TakeAlongDim(pos, indices)]

\* Lines 417-430: everything the adapter derives before the packed call.
Unpad(input_ids, attention_mask, position_ids) ==
    LET derived == DerivePositionIds(attention_mask)
        pos     == IF position_ids = None THEN derived.position_ids ELSE The(position_ids)
        mask    == IF position_ids = None THEN derived.attention_mask ELSE attention_mask
        seqlens_in_batch == SeqlensInBatch(mask)
        indices == Nonzero(Flatten(mask))
    IN  [attention_mask  |-> mask,
         position_ids    |-> pos,
         indices         |-> indices,
         max_seqlen      |-> MaxTo(seqlens_in_batch, Len0(seqlens_in_batch)),
         cu_seqlens      |-> CuSeqlens(seqlens_in_batch),
         nz_input_ids    |-> TakeAlongDim(input_ids, indices),
         nz_position_ids |-> TakeAlongDim(pos, indices)]

\* ----------------------------------------------------------- decoder stack
\* self.embed_tokens(nz_input_ids)
embed_tokens(nz_input_ids) ==
    Materialize([t \in DOMAIN nz_input_ids |-> <<"embed", nz_input_ids[t]>>])

\* UnpaddedLlamaRMSNorm.forward: row by row.
RMSNorm(name, l, h) == Materialize([t \in DOMAIN h |-> <<name, l, h[t]>>])

\* q_proj, k_proj and v_proj of one row: the three projections of a token
\* are one term, each being a function of the same normalised row.
qkv_proj(l, x) == Materialize([t \in DOMAIN x |-> <<"qkv_proj", l, x[t]>>])

\* Whether cos[position_ids] is a legal lookup for every packed token.
RotaryInRange(cos_sin, nz_position_ids) ==
    \A t \in DOMAIN nz_position_ids : IndexInRange(cos_sin, nz_position_ids[t])

\* apply_rotary_pos_emb: query and key of token t are rotated by row
\* position_ids[t] of the table.
apply_rotary_pos_emb(qkv, cos_sin, position_ids) ==
    Materialize([t \in DOMAIN qkv |-> <<"rope", qkv[t], IndexRow(cos_sin, position_ids[t])>>])

\* The sequences whose span [cu_seqlens[i], cu_seqlens[i+1]) holds token t.
SegmentsOf(cu_seqlens, t) ==
    {i \in 0 .. Len0(cu_seqlens) - 2 : cu_seqlens[i] <= t /\ t < cu_seqlens[i + 1]}

\* flash_attn_unpadded_func(q, k, v, cu_seqlens, cu_seqlens, max_seqlen,
\* max_seqlen, dropout_p=0.0, causal): the query of token t meets the keys and
\* values of the tokens of its own span, up to itself when causal.  A row no
\* span covers, or beyond max_seqlen in its span, is never written; the
\* adapter's tables and the packed calls drawn here leave no such row.
flash_attn_unpadded_func(qkv, cu_seqlens, max_seqlen, causal) ==
    Materialize([t \in DOMAIN qkv |->
        IF SegmentsOf(cu_seqlens, t) = {} THEN <<"uninitialized">>
        ELSE LET i  == CHOOSE j \in SegmentsOf(cu_seqlens, t) : TRUE
                 lo == cu_seqlens[i]
                 hi == IF causal THEN t ELSE cu_seqlens[i + 1] - 1
             IN  IF t - lo >= max_seqlen THEN <<"uninitialized">>
                 ELSE <<"attn", t - lo, Materialize([j \in 0 .. hi - lo |-> qkv[lo + j]])>>])

\* Mutant of Attention_forward: the kernel is called with causal=False.
Attention_forward_noncausal(l, cos_sin, nz_hidden_states, nz_position_ids, cu_seqlens, max_seqlen) ==
    LET qkv  == apply_rotary_pos_emb(qkv_proj(l, nz_hidden_states), cos_sin, nz_position_ids)
        attn == flash_attn_unpadded_func(qkv, cu_seqlens, max_seqlen, FALSE)
    IN  Materialize([t \in DOMAIN attn |-> <<"o_proj", l, attn[t]>>])

\* UnpaddedLlamaAttention.forward
Attention_forward(l, cos_sin, nz_hidden_states, nz_position_ids, cu_seqlens, max_seqlen) ==
    LET qkv  == apply_rotary_pos_emb(qkv_proj(l, nz_hidden_states), cos_sin, nz_position_ids)
        attn == flash_attn_unpadded_func(qkv, cu_seqlens, max_seqlen, TRUE)
    IN  Materialize([t \in DOMAIN attn |-> <<"o_proj", l, attn[t]>>])

\* UnpaddedLlamaMLP.forward: row by row.
MLP_forward(l, x) == Materialize([t \in DOMAIN x |-> <<"mlp", l, x[t]>>])

\* residual + nz_hidden_states
Add(residual, h) == Materialize([t \in DOMAIN h |-> <<"add", residual[t], h[t]>>])

\* UnpaddedLlamaDecoderLayer.forward
DecoderLayer_forward(l, cos_sin, nz_hidden_states, nz_position_ids, cu_seqlens, max_seqlen) ==
    LET h1 == Add(nz_hidden_states,
                  Attention_forward(l, cos_sin, RMSNorm("input_layernorm", l, nz_hidden_states),
                                    nz_position_ids, cu_seqlens, max_seqlen))
    IN  Add(h1, MLP_forward(l, RMSNorm("post_attention_layernorm", l, h1)))

\* The first n decoder layers, in order.
RECURSIVE Layers(_, _, _, _, _, _)
Layers(n, cos_sin, h, nz_position_ids, cu_seqlens, max_seqlen) ==
    IF n = 0 THEN h
    ELSE DecoderLayer_forward(n, cos_sin,
                              Layers(n - 1, cos_sin, h, nz_position_ids, cu_seqlens, max_seqlen),
                              nz_position_ids, cu_seqlens, max_seqlen)

\* self.lm_head(self.norm(h)): row by row.
lm_head(h) == Materialize([t \in DOMAIN h |-> <<"lm_head", h[t]>>])

\* UnpaddedLlamaForCausalLM.forward's logits after n layers; None when the
\* rotary lookup of a layer raises.
PackedLogits(n, cos_sin, nz_input_ids, nz_position_ids, cu_seqlens, max_seqlen) ==
    IF n > 0 /\ ~RotaryInRange(cos_sin, nz_position_ids) THEN None
    ELSE Some(lm_head(RMSNorm("norm", 0,
                 Layers(n, cos_sin, embed_tokens(nz_input_ids),
                        nz_position_ids, cu_seqlens, max_seqlen))))

\* Mutant of pad_input: the rows are written at 0 .. nnz-1, not at indices.
pad_input_compact(hidden_states, indices, batch, seqlen) ==
    LET flat == [f \in 0 .. batch * seqlen - 1 |->
                    IF f < Len0(hidden_states) THEN hidden_states[f] ELSE <<"zeros">>]
    IN  Materialize([r \in 0 .. batch - 1 |->
            Materialize([c \in 0 .. seqlen - 1 |-> flat[r * seqlen + c]])])

\* flash_attn.bert_padding.pad_input: zeros of [batch * seqlen, ...], rows
\* written at indices, reshaped to [batch, seqlen, ...].
pad_input(hidden_states, indices, batch, seqlen) ==
    LET RECURSIVE Put(_, _)
        Put(out, n) == IF n = 0 THEN out
                       ELSE [Put(out, n - 1) EXCEPT ![indices[n - 1]] = hidden_states[n - 1]]
        flat == Put([f \in 0 .. batch * seqlen - 1 |-> <<"zeros">>], Len0(indices))
    IN  Materialize([r \in 0 .. batch - 1 |->
            Materialize([c \in 0 .. seqlen - 1 |-> flat[r * seqlen + c]])])

\* LlamaForCausalLM.forward as a function of its inputs, with n decoder
\* layers: the padded logits, or None when the call raises.
PaddedLogits(n, cos_sin, input_ids, attention_mask, position_ids) ==
    LET u == Unpad(input_ids, attention_mask, position_ids)
        packed == PackedLogits(n, cos_sin, u.nz_input_ids, u.nz_position_ids,
                               u.cu_seqlens, u.max_seqlen)
    IN  IF packed = None THEN None
        ELSE Some(pad_input(The(packed), u.indices,
                            BatchSize(input_ids), SeqLenOf(input_ids)))

\* -------------------------------------------------------------------- loss
\* A float is a fraction <<n, d>>; d = 0 is what a division by zero leaves:
\* <<1, 0>> and <<-1, 0>> are the infinities, <<0, 0>> is NaN.
Finite(x) == x[2] # 0

\* torch.reciprocal
Reciprocal(x) == <<1, x>>

\* torch.where(cond, a, b): both operands are computed, one is kept.
Where(cond, a, b) == IF cond THEN a ELSE b

\* factor * s
Scale(factor, s) == <<factor[1] * s, factor[2]>>

\* Sum of weights[k] * ce[k].
RECURSIVE WeightedSumTo(_, _, _)
WeightedSumTo(weights, ce, n) ==
    IF n = 0 THEN 0 ELSE WeightedSumTo(weights, ce, n - 1) + weights[n - 1] * ce[n - 1]

\* Mutant of weighted_cross_entropy: no guard on a zero sum of weights.
weighted_cross_entropy_unguarded(ce, weights) ==
    Scale(Reciprocal(SumTo(weights, Len0(weights))), WeightedSumTo(weights, ce, Len0(ce)))

\* weighted_cross_entropy, on the per-token losses
\* ce = cross_entropy(logits, labels, reduction="none").
weighted_cross_entropy(ce, weights) ==
    LET factor == SumTo(weights, Len0(weights))
        guarded == Where(factor = 0, <<0, 1>>, Reciprocal(factor))
    IN  Scale(guarded, WeightedSumTo(weights, ce, Len0(ce)))

\* F.cross_entropy's default ignore_index.
ignore_index == -100

\* CrossEntropyLoss()(logits, labels): the mean over the labels not ignored.
CrossEntropyLoss(ce, labels) ==
    <<SumTo(ce, Len0(ce)), Cardinality({k \in DOMAIN labels : labels[k] # ignore_index})>>

\* Lines 391-397.
ComputeLoss(ce, nz_shifted_label_ids, nz_shifted_loss_weights) ==
    IF nz_shifted_label_ids # None
    THEN IF nz_shifted_loss_weights # None
         THEN Some(weighted_cross_entropy(ce, The(nz_shifted_loss_weights)))
         ELSE Some(CrossEntropyLoss(ce, The(nz_shifted_label_ids)))
    ELSE None

\* ------------------------------------------------------------------- state
VARIABLES
    pc,                       \* where the forward call stands
    mode,                     \* "padded": LlamaForCausalLM; "packed": UnpaddedLlamaForCausalLM
    cos_sin,                  \* rotary_emb.cos_cached / sin_cached
    input_ids,                \* the caller's padded tensors
    attention_mask,
    position_ids,             \* None or Some(tensor)
    local_position_ids,       \* forward's local position_ids after line 420
    indices,                  \* flat indices of the mask = 1 cells
    nz_input_ids,             \* the packed batch
    nz_position_ids,
    cu_seqlens,
    max_seqlen,
    nz_shifted_label_ids,     \* None or Some(labels)
    nz_shifted_loss_weights,  \* None or Some(weights)
    ce,                       \* what cross_entropy(..., reduction="none") yields per token
    nz_hidden_states,
    layer,                    \* decoder layers run so far
    logits,                   \* packed logits
    loss,                     \* None or Some(fraction)
    padded_logits             \* what the padded call returns

vars == <<pc, mode, cos_sin, input_ids, attention_mask, position_ids,
          local_position_ids, indices,
          nz_input_ids, nz_position_ids, cu_seqlens, max_seqlen,
          nz_shifted_label_ids, nz_shifted_loss_weights, ce,
          nz_hidden_states, layer, logits, loss, padded_logits>>

caller_padded == <<input_ids, attention_mask, position_ids>>
packed_batch  == <<nz_input_ids, nz_position_ids, cu_seqlens, max_seqlen>>
labels_in     == <<nz_shifted_label_ids, nz_shifted_loss_weights, ce>>

\* The [batch, seq] shapes of at most n cells.
Shapes(n) == {sh \in (1 .. MaxBatch) \X (0 .. MaxSeqLen) : sh[1] * sh[2] <= n}

\* Offset tables of one or two sequences over n packed tokens.
CuTables(n) == {[i \in 0 .. 1 |-> i * n]} \cup {[i \in 0 .. 2 |-> IF i = 0 THEN 0 ELSE IF i = 1 THEN a ELSE n] : a \in 0 .. n}

\* Position of packed token t within its sequence.
PositionInSequence(cu, t) == t - cu[CHOOSE i \in SegmentsOf(cu, t) : TRUE]

\* The next token of the same sequence, ignore_index at a sequence's end.
ShiftedLabels(ids, cu) ==
    [t \in DOMAIN ids |-> IF SegmentsOf(cu, t + 1) = SegmentsOf(cu, t) THEN ids[t + 1] ELSE ignore_index]

InitCommon ==
    /\ cos_sin = RotaryEmbedding_init
    /\ nz_hidden_states = Empty
    /\ layer = 0
    /\ logits = Empty
    /\ loss = None
    /\ padded_logits = Empty
    /\ local_position_ids = Empty

\* A padded call: LlamaForCausalLM.forward(input_ids, attention_mask[, position_ids]).
InitPadded ==
    /\ mode = "padded"
    /\ pc = "unpad"
    /\ \/ \E sh \in Shapes(MaxCells) :
             /\ input_ids \in Tensor(sh[1], sh[2], Vocab)
             /\ attention_mask \in Tensor(sh[1], sh[2], {0, 1})
             /\ position_ids = None
       \/ \E sh \in Shapes(MaxPosCells) :
             /\ input_ids \in Tensor(sh[1], sh[2], Vocab)
             /\ attention_mask \in Tensor(sh[1], sh[2], {0, 1})
             /\ \E p \in Tensor(sh[1], sh[2], 0 .. max_seq_len_cached) : position_ids = Some(p)
    /\ indices = Empty
    /\ nz_input_ids = Empty
    /\ nz_position_ids = Empty
    /\ cu_seqlens = Empty
    /\ max_seqlen = 0
    /\ nz_shifted_label_ids = None
    /\ nz_shifted_loss_weights = None
    /\ ce = Empty

\* A packed call: UnpaddedLlamaForCausalLM.forward on a well-formed batch.
InitPacked ==
    /\ mode = "packed"
    /\ pc = "embed"
    /\ input_ids = Empty
    /\ attention_mask = Empty
    /\ position_ids = None
    /\ indices = Empty
    /\ \E n \in 0 .. MaxPacked :
          /\ nz_input_ids \in [0 .. n - 1 -> Vocab]
          /\ cu_seqlens \in CuTables(n)
          /\ nz_position_ids = [t \in 0 .. n - 1 |-> PositionInSequence(cu_seqlens, t)]
          /\ max_seqlen = MaxTo([i \in 0 .. Len0(cu_seqlens) - 2 |-> cu_seqlens[i + 1] - cu_seqlens[i]],
                                Len0(cu_seqlens) - 1)
          /\ nz_shifted_loss_weights \in {None} \cup {Some(w) : w \in [0 .. n - 1 -> WeightVals]}
          /\ \/ /\ nz_shifted_label_ids = None
                /\ ce = [t \in 0 .. n - 1 |-> 0]
             \/ /\ nz_shifted_label_ids = Some(ShiftedLabels(nz_input_ids, cu_seqlens))
                /\ ce \in {c \in [0 .. n - 1 -> 0 .. MaxLoss] :
                              \A t \in 0 .. n - 1 :
                                  ShiftedLabels(nz_input_ids, cu_seqlens)[t] = ignore_index => c[t] = 0}

Init == InitCommon /\ (InitPadded \/ InitPacked)

\* ----------------------------------------------------------------- actions
\* LlamaForCausalLM.forward, lines 417-430.
UnpadInputs ==
    /\ pc = "unpad"
    /\ LET u == Unpad(input_ids, attention_mask, position_ids)
       IN  /\ attention_mask' = u.attention_mask
           /\ local_position_ids' = u.position_ids
           /\ indices' = u.indices
           /\ nz_input_ids' = u.nz_input_ids
           /\ nz_position_ids' = u.nz_position_ids
           /\ cu_seqlens' = u.cu_seqlens
           /\ max_seqlen' = u.max_seqlen
    /\ pc' = "embed"
    /\ UNCHANGED <<mode, cos_sin, input_ids, position_ids, labels_in,
                   nz_hidden_states, layer, logits, loss, padded_logits>>

\* UnpaddedLlamaModel.forward, lines 302-303.
Embed ==
    /\ pc = "embed"
    /\ nz_hidden_states' = embed_tokens(nz_input_ids)
    /\ layer' = 0
    /\ pc' = "layers"
    /\ UNCHANGED <<mode, cos_sin, caller_padded, local_position_ids, indices, packed_batch, labels_in,
                   logits, loss, padded_logits>>

\* One turn of the loop over self.layers, lines 306-333.
DecoderLayer ==
    /\ pc = "layers"
    /\ layer < NumLayers
    /\ RotaryInRange(cos_sin, nz_position_ids)
    /\ nz_hidden_states' = DecoderLayer_forward(layer + 1, cos_sin, nz_hidden_states,
                                                nz_position_ids, cu_seqlens, max_seqlen)
    /\ layer' = layer + 1
    /\ UNCHANGED <<pc, mode, cos_sin, caller_padded, local_position_ids, indices, packed_batch, labels_in,
                   logits, loss, padded_logits>>

\* cos[position_ids] with an index outside the table raises; the call ends.
RotaryIndexError ==
    /\ pc = "layers"
    /\ layer < NumLayers
    /\ ~RotaryInRange(cos_sin, nz_position_ids)
    /\ pc' = "error"
    /\ UNCHANGED <<mode, cos_sin, caller_padded, local_position_ids, indices, packed_batch, labels_in,
                   nz_hidden_states, layer, logits, loss, padded_logits>>

\* self.norm (line 335), self.lm_head and the loss (lines 389-401).
NormHead ==
    /\ pc = "layers"
    /\ layer = NumLayers
    /\ nz_hidden_states' = RMSNorm("norm", 0, nz_hidden_states)
    /\ logits' = lm_head(nz_hidden_states')
    /\ loss' = ComputeLoss(ce, nz_shifted_label_ids, nz_shifted_loss_weights)
    /\ pc' = IF mode = "padded" THEN "pad" ELSE "done"
    /\ UNCHANGED <<mode, cos_sin, caller_padded, local_position_ids, indices, packed_batch, labels_in,
                   layer, padded_logits>>

\* LlamaForCausalLM.forward, lines 438-443: only the logits are kept.
PadLogits ==
    /\ pc = "pad"
    /\ padded_logits' = pad_input(logits, indices, BatchSize(input_ids), SeqLenOf(input_ids))
    /\ loss' = None
    /\ pc' = "done"
    /\ UNCHANGED <<mode, cos_sin, caller_padded, local_position_ids, indices, packed_batch, labels_in,
                   nz_hidden_states, layer, logits>>

Next ==
    \/ UnpadInputs
    \/ Embed
    \/ DecoderLayer
    \/ RotaryIndexError
    \/ NormHead
    \/ PadLogits

Spec == Init /\ [][Next]_vars

\* ------------------------------------------------------- claims: vocabulary
Rows == DOMAIN attention_mask
Cols == DOMAIN attention_mask[0]
Cells == {rc \in Rows \X Cols : TRUE}
Valid(r, c) == attention_mask[r][c] = 1

\* The mask = 1 cells before (r, c) in row-major order, and in its own row.
ValidBefore(r, c) ==
    {rc \in Cells : Valid(rc[1], rc[2]) /\ (rc[1] < r \/ (rc[1] = r /\ rc[2] < c))}
ValidBeforeInRow(r, c) == {d \in Cols : d < c /\ Valid(r, d)}
RowLength(r) == Cardinality({c \in Cols : Valid(r, c)})
nnz == Cardinality({rc \in Cells : Valid(rc[1], rc[2])})

\* The adapter has run on a padded call.
Unpadded == mode = "padded" /\ pc # "unpad"
\* A padded call has returned its logits.
Returned == mode = "padded" /\ pc = "done"

\* input_ids with the token at (r, c) replaced by v.
WithToken(r, c, v) == [input_ids EXCEPT ![r][c] = v]

\* The logits the same model returns for other token ids, same mask and
\* position_ids.
LogitsFor(ids) == PaddedLogits(NumLayers, cos_sin, ids, attention_mask, position_ids)

\* The packed hidden states the same model holds for other token ids after
\* as many decoder layers as have run.
HiddenFor(ids) ==
    LET u == Unpad(ids, attention_mask, position_ids)
    IN  Layers(layer, cos_sin, embed_tokens(u.nz_input_ids), u.nz_position_ids,
               u.cu_seqlens, u.max_seqlen)

\* The packed index of the mask = 1 cell (r, c).
PackedIndex(r, c) == Cardinality(ValidBefore(r, c))

\* The decoder stack of a padded call has run some of its layers.
InLayers == mode = "padded" /\ pc = "layers"

\* ------------------------------------------------------------------ claims
\* C1 (sequence isolation): when a padded call has returned, the same call
\* with the token id of any one cell of any batch row changed returns, for
\* every cell of every other batch row, the same logits row; and after any
\* number of decoder layers the hidden state of every token of every other
\* row is the same.  This for every mask, with and without caller position
\* ids.
C1_SequenceIsolation ==
    /\ (Returned /\ Cardinality(Rows) > 1) =>
          \A rc \in Cells : \A v \in Vocab \ {input_ids[rc[1]][rc[2]]} :
              LET other == LogitsFor(WithToken(rc[1], rc[2], v))
              IN  /\ other # None
                  /\ \A r \in Rows \ {rc[1]} : \A c \in Cols :
                         The(other)[r][c] = padded_logits[r][c]
    /\ (InLayers /\ Cardinality(Rows) > 1) =>
          \A rc \in Cells : \A v \in Vocab \ {input_ids[rc[1]][rc[2]]} :
              LET other == HiddenFor(WithToken(rc[1], rc[2], v))
              IN  \A r \in Rows \ {rc[1]} : \A c \in Cols :
                      Valid(r, c) =>
                          other[PackedIndex(r, c)] = nz_hidden_states[PackedIndex(r, c)]

\* C1 witness: a returned call on two rows that both hold valid tokens.
C1_Witness ==
    /\ Returned
    /\ \E r1 \in Rows : \E r2 \in Rows \ {r1} : RowLength(r1) >= 2 /\ RowLength(r2) >= 1

\* C2 (causality): when a padded call has returned, the same call with the
\* token id at column d of row r changed returns the same logits row at
\* every column c < d of row r, after the whole stack (embedding, all
\* layers, final norm, LM head); and after any number of decoder layers the
\* hidden state of every token of row r at a column c < d is the same.
C2_Causality ==
    /\ Returned =>
          \A rc \in {x \in Cells : x[2] > 0} : \A v \in Vocab \ {input_ids[rc[1]][rc[2]]} :
              LET other == LogitsFor(WithToken(rc[1], rc[2], v))
              IN  /\ other # None
                  /\ \A c \in Cols :
                         c < rc[2] => The(other)[rc[1]][c] = padded_logits[rc[1]][c]
    /\ InLayers =>
          \A rc \in {x \in Cells : x[2] > 0} : \A v \in Vocab \ {input_ids[rc[1]][rc[2]]} :
              LET other == HiddenFor(WithToken(rc[1], rc[2], v))
              IN  \A c \in Cols :
                      (c < rc[2] /\ Valid(rc[1], c)) =>
                          other[PackedIndex(rc[1], c)] = nz_hidden_states[PackedIndex(rc[1], c)]

\* C2 witness: a returned call with a sequence of three valid tokens, so a
\* later token of the sequence can change under an earlier one.
C2_Witness == Returned /\ \E r \in Rows : RowLength(r) >= 3

\* C3 (offset table): after the adapter has run, cu_seqlens has batch + 1
\* entries, starts at 0, never decreases and ends at the number of mask = 1
\* cells; the j-th mask = 1 cell of row r (in column order) is packed token
\* cu_seqlens[r] + j, which lies in row r's span and in no other; max_seqlen
\* is the largest span.
C3_OffsetTable ==
    Unpadded =>
        /\ DOMAIN cu_seqlens = 0 .. Cardinality(Rows)
        /\ cu_seqlens[0] = 0
        /\ \A r \in Rows : cu_seqlens[r] <= cu_seqlens[r + 1]
        /\ cu_seqlens[Cardinality(Rows)] = nnz
        /\ DOMAIN indices = 0 .. nnz - 1
        /\ DOMAIN nz_input_ids = 0 .. nnz - 1
        /\ \A rc \in Cells :
              Valid(rc[1], rc[2]) =>
                  LET k == Cardinality(ValidBefore(rc[1], rc[2]))
                  IN  /\ k = cu_seqlens[rc[1]] + Cardinality(ValidBeforeInRow(rc[1], rc[2]))
                      /\ k < cu_seqlens[rc[1] + 1]
                      /\ indices[k] = rc[1] * Cardinality(Cols) + rc[2]
                      /\ nz_input_ids[k] = input_ids[rc[1]][rc[2]]
        /\ \A k \in DOMAIN nz_input_ids :
              \E r \in Rows : {i \in Rows : cu_seqlens[i] <= k /\ k < cu_seqlens[i + 1]} = {r}
        /\ \A r \in Rows : cu_seqlens[r + 1] - cu_seqlens[r] <= max_seqlen
        /\ \E r \in Rows : cu_seqlens[r + 1] - cu_seqlens[r] = max_seqlen

\* C3 witness: the adapter has run on a batch of rows of different lengths,
\* one of them with a zero inside.
C3_Witness ==
    /\ Unpadded
    /\ \E r \in Rows : \E c \in Cols : ~Valid(r, c) /\ ValidBeforeInRow(r, c) # {}
                                       /\ \E d \in Cols : d > c /\ Valid(r, d)
    /\ \E r1 \in Rows : \E r2 \in Rows : RowLength(r1) < RowLength(r2) /\ r2 < r1

\* C4 (pack then unpack): the returned logits have the shape of the mask; at
\* a mask = 1 cell they are the packed logits row of the token gathered from
\* that cell, found at the same flat index; at a mask = 0 cell they are the
\* zero fill.
C4_PackUnpackRoundTrip ==
    Returned =>
        /\ DOMAIN padded_logits = Rows
        /\ \A rc \in Cells :
              /\ DOMAIN padded_logits[rc[1]] = Cols
              /\ IF Valid(rc[1], rc[2])
                 THEN LET k == Cardinality(ValidBefore(rc[1], rc[2]))
                      IN  /\ padded_logits[rc[1]][rc[2]] = logits[k]
                          /\ indices[k] = rc[1] * Cardinality(Cols) + rc[2]
                          /\ nz_input_ids[k] = input_ids[rc[1]][rc[2]]
                 ELSE padded_logits[rc[1]][rc[2]] = <<"zeros">>

\* C4 witness: a returned call whose first cell is padding and which holds
\* valid tokens in two rows.
C4_Witness ==
    /\ Returned
    /\ 0 \in Cols
    /\ ~Valid(0, 0)
    /\ \E r1 \in Rows : \E r2 \in Rows \ {r1} : RowLength(r1) >= 1 /\ RowLength(r2) >= 1

\* C5 (derived position ids): without caller position ids, the position at
\* a mask = 1 cell is the number of mask = 1 cells to its left in its row,
\* and 0 at a mask = 0 cell; the packed positions of each sequence are
\* 0, 1, ..., length - 1.
C5_DerivedPositionIds ==
    (Unpadded /\ position_ids = None) =>
        /\ \A rc \in Cells :
              local_position_ids[rc[1]][rc[2]] =
                  IF Valid(rc[1], rc[2]) THEN Cardinality(ValidBeforeInRow(rc[1], rc[2])) ELSE 0
        /\ \A r \in Rows : \A j \in 0 .. RowLength(r) - 1 :
              nz_position_ids[cu_seqlens[r] + j] = j

\* C5 witness: positions were derived for a left-padded row and for a row
\* with a zero inside.
C5_Witness ==
    /\ Unpadded
    /\ position_ids = None
    /\ \E r \in Rows : 0 \in Cols /\ ~Valid(r, 0) /\ RowLength(r) >= 2
    /\ \E r \in Rows : \E c \in Cols : ~Valid(r, c) /\ ValidBeforeInRow(r, c) # {}
                                       /\ \E d \in Cols : d > c /\ Valid(r, d)

\* C6 (caller position ids are honored): with caller position ids, the
\* position of a packed token is the caller's entry at the token's cell, and
\* the index list and the offset table are those of the mask.
C6_CallerPositionIdsHonored ==
    (Unpadded /\ position_ids # None) =>
        /\ local_position_ids = The(position_ids)
        /\ DOMAIN nz_position_ids = 0 .. nnz - 1
        /\ \A rc \in Cells :
              Valid(rc[1], rc[2]) =>
                  LET k == Cardinality(ValidBefore(rc[1], rc[2]))
                  IN  /\ nz_position_ids[k] = The(position_ids)[rc[1]][rc[2]]
                      /\ indices[k] = rc[1] * Cardinality(Cols) + rc[2]
        /\ cu_seqlens[0] = 0
        /\ \A r \in Rows : cu_seqlens[r + 1] - cu_seqlens[r] = RowLength(r)

\* C6 witness: the caller's position at a valid cell is not the derived one.
C6_Witness ==
    /\ Unpadded
    /\ position_ids # None
    /\ \E rc \in Cells :
          /\ Valid(rc[1], rc[2])
          /\ The(position_ids)[rc[1]][rc[2]] # Cardinality(ValidBeforeInRow(rc[1], rc[2]))
          /\ nz_position_ids[Cardinality(ValidBefore(rc[1], rc[2]))] = The(position_ids)[rc[1]][rc[2]]

\* C7 (rotary lookup stays in bounds): every position id the adapter hands
\* to the packed core is a row of the rotary table, and no lookup raises.
C7_RotaryLookupInBounds ==
    /\ Unpadded =>
          \A k \in DOMAIN nz_position_ids : nz_position_ids[k] < Len0(cos_sin)
    /\ pc # "error"

\* Sum of f over the set D of its arguments.
RECURSIVE SumOver(_, _)
SumOver(f, D) ==
    IF D = {} THEN 0
    ELSE LET x == CHOOSE y \in D : TRUE IN f[x] + SumOver(f, D \ {x})

C9_EmptySequences ==
    (Unpadded /\ \E r \in Rows : RowLength(r) = 0) =>
        /\ Len0(indices) = nnz
        /\ Len0(nz_input_ids) = nnz
        /\ Len0(nz_position_ids) = nnz
        /\ \A r \in Rows :
              /\ cu_seqlens[r] = Cardinality(ValidBefore(r, 0))
              /\ cu_seqlens[r + 1] = cu_seqlens[r] + RowLength(r)
              /\ RowLength(r) = 0 =>
                    ~\E k \in DOMAIN indices : indices[k] \div Cardinality(Cols) = r
              /\ \A j \in 0 .. RowLength(r) - 1 :
                    /\ indices[cu_seqlens[r] + j] \div Cardinality(Cols) = r
                    /\ position_ids = None => nz_position_ids[cu_seqlens[r] + j] = j
        /\ nnz = 0 => max_seqlen = 0
        /\ pc = "error" => \E k \in DOMAIN nz_position_ids : nz_position_ids[k] >= Len0(cos_sin)

\* C9 witness: a call has returned for a batch whose middle row is empty
\* and whose first and last rows hold tokens.
C9_Witness ==
    /\ Returned
    /\ \E r \in Rows : /\ r - 1 \in Rows /\ r + 1 \in Rows
                       /\ RowLength(r) = 0 /\ RowLength(r - 1) > 0 /\ RowLength(r + 1) > 0

\* C10 (no per-call mutation): no step of a forward call changes the
\* caller's input_ids, attention_mask or position_ids, nor the rotary table;
\* once packed, the ids, positions, offset table and max_seqlen stay as they
\* are through every layer.
C10_NoPerCallMutation ==
    [][/\ input_ids' = input_ids
       /\ attention_mask' = attention_mask
       /\ position_ids' = position_ids
       /\ cos_sin' = cos_sin
       /\ pc # "unpad" => packed_batch' = packed_batch]_vars

\* C10 witness: a padded call has returned after deriving positions for a
\* mask with zeros after ones, where the in-place fill wrote.
C10_Witness ==
    /\ Returned
    /\ position_ids = None
    /\ \E r \in Rows : \E c \in Cols : ~Valid(r, c) /\ ValidBeforeInRow(r, c) # {}
    /\ local_position_ids # attention_mask

====
